---- MODULE Spec2Model ----
(***************************************************************************)
(* Model of the remote Linux server gateway (src/src/index.ts): the SSH    *)
(* connection pool, the executor functions that run on a pooled            *)
(* connection, and the CallTool request handler.                           *)
(*                                                                         *)
(* JavaScript runs one callback at a time, so every action below is one    *)
(* run-to-completion step: a request handler up to its first suspension,   *)
(* or one event of the ssh2 / fs libraries together with all the promise   *)
(* continuations that it triggers.                                         *)
(*                                                                         *)
(* A JavaScript string is modelled as a sequence of tokens (each token a   *)
(* piece of text); concatenation and template literals are \o.             *)
(***************************************************************************)
EXTENDS Naturals, Sequences, FiniteSets, TLC

VARIABLES
    env,          \* process.env, read by getSSHConfig on every call
    connections,  \* the pool: connectionKey -> index of the Client in clients
    clients,      \* every ssh2 Client constructed by createSSHConnection
    tasks,        \* every invocation of an executor function (a promise)
    calls,        \* every CallTool request and its response
    proc,         \* "running" | "crashed"
    remote,       \* the remote host: the files it holds, the commands its shell ran
    local,        \* the local file system: the files it holds
    exit,         \* the signal the process received and the code it exited with
    faults,       \* number of failures raised by the libraries so far
    delivered     \* number of data chunks delivered by the remote side so far

vars == <<env, connections, clients, tasks, calls, proc, remote, local, exit, faults, delivered>>

(***************************************************************************)
(* Bounds of the model.                                                    *)
(***************************************************************************)
\* Spec: concurrent requests of every tool
MaxCalls == 2
MaxTasks == 2
MaxData == 2
MaxFaults == 1
\* SpecInput: every combination of present, missing and empty arguments
InputCalls == 1
InputData == 2
InputFaults == 1
\* SpecQuote: the longest content and path written by write_file
MaxContent == 4
MaxPath == 1
QuoteCalls == 1
\* SpecMonitor: every monitor type
MonitorCalls == 1
MonitorTasks == 5
MonitorData == 1
MonitorFaults == 1
\* SpecConfig: every environment
ConfigCalls == 1
ConfigFaults == 1
\* the longest chunk a read stream delivers
MaxChunk == 2
\* SpecTransfer: an upload and then a download, of every file content
TransferCalls == 2
TransferFaults == 1
MaxFile == 3
\* SpecKey: a command in every environment
KeyCalls == 1
\* SpecHang: a request that hangs and the requests beside it
HangCalls == 2
HangTasks == 2
\* SpecLive: requests on a remote side that answers
LiveCalls == 2
LiveTasks == 2
LiveFaults == 1

(***************************************************************************)
(* JavaScript values that reach the handlers: undefined, strings, booleans *)
(***************************************************************************)
Undefined == [t |-> "undefined"]
Str(s) == [t |-> "string", s |-> s]
Bool(b) == [t |-> "boolean", b |-> b]

\* Truthiness of a value (used by !x, x || y, Boolean(x)).
Truthy(v) ==
    CASE v.t = "undefined" -> FALSE
      [] v.t = "string" -> v.s # <<>>
      [] v.t = "boolean" -> v.b

\* String(v): the text of a value; String(undefined) is "undefined".
String(v) ==
    CASE v.t = "undefined" -> <<"undefined">>
      [] v.t = "string" -> v.s
      [] v.t = "boolean" -> IF v.b THEN <<"true">> ELSE <<"false">>

\* a || b
Or(a, b) == IF Truthy(a) THEN a ELSE b

\* request.params.arguments?.[name]
Arg(request, name) ==
    IF name \in DOMAIN request.arguments THEN request.arguments[name] ELSE Undefined

\* `${error}` of an Error object with the given message.
ErrorText(message) == <<"Error: ">> \o message

(***************************************************************************)
(* getSSHConfig: the connection descriptor built from the environment.     *)
(***************************************************************************)
Digits == <<"0", "1", "2", "3", "4", "5", "6", "7", "8", "9">>
IsDigit(c) == \E i \in 1..10 : Digits[i] = c
DigitValue(c) == (CHOOSE i \in 1..10 : Digits[i] = c) - 1

\* A JavaScript number: an integer or NaN.
NaN == [nan |-> TRUE]
Num(n) == [nan |-> FALSE, n |-> n]

\* Length of the longest prefix of s made of digits.
RECURSIVE DigitPrefix(_)
DigitPrefix(s) ==
    IF s = <<>> \/ ~IsDigit(Head(s)) THEN 0 ELSE 1 + DigitPrefix(Tail(s))

RECURSIVE DigitsValue(_, _)
DigitsValue(s, n) ==
    IF n = 0 THEN 0 ELSE 10 * DigitsValue(s, n - 1) + DigitValue(s[n])

\* parseInt(s) of a string given character by character: the value of the
\* leading decimal digits, NaN when there are none.
parseInt(s) ==
    LET n == DigitPrefix(s) IN IF n = 0 THEN NaN ELSE Num(DigitsValue(s, n))

RECURSIVE NatToString(_)
NatToString(n) ==
    IF n < 10 THEN <<Digits[n + 1]>> ELSE NatToString(n \div 10) \o <<Digits[(n % 10) + 1]>>

\* `${number}`
NumberToString(x) == IF x.nan THEN <<"NaN">> ELSE NatToString(x.n)

ConfigFailure(message) == [ok |-> FALSE, error |-> message]

\* Every combination of set, unset and empty variables, of a readable and an
\* unreadable key file, and numeric and non-numeric ports.
Ports == {Undefined, Str(<<>>), Str(<<"2", "2">>), Str(<<"8">>), Str(<<"a">>), Str(<<"2", "a">>)}
ConfigEnvs ==
    {[SSH_HOST |-> h, SSH_PORT |-> p, SSH_USERNAME |-> u, SSH_PASSWORD |-> pw,
      SSH_PRIVATE_KEY_PATH |-> k, SSH_PASSPHRASE |-> pp, keyFile |-> f] :
        h \in {Undefined, Str(<<>>), Str(<<"h">>)},
        p \in Ports,
        u \in {Undefined, Str(<<>>), Str(<<"u">>)},
        pw \in {Undefined, Str(<<>>), Str(<<"pw">>)},
        k \in {Undefined, Str(<<>>), Str(<<"/k">>)},
        pp \in {Undefined, Str(<<>>), Str(<<"pp">>)},
        f \in {Undefined, Str(<<"key">>)}}

\* (a resolver that keeps the passphrase whatever the authentication is)
getSSHConfigKeepsPassphrase(e) ==
    LET host == e.SSH_HOST
        port == parseInt(String(Or(e.SSH_PORT, Str(<<"2", "2">>))))
        username == e.SSH_USERNAME
        password == e.SSH_PASSWORD
        privateKeyPath == e.SSH_PRIVATE_KEY_PATH
        passphrase == e.SSH_PASSPHRASE
        config == [host |-> String(host), port |-> port, username |-> String(username),
                   password |-> Undefined, privateKey |-> Undefined,
                   passphrase |-> IF Truthy(passphrase) THEN passphrase ELSE Undefined]
    IN  IF ~Truthy(host) \/ ~Truthy(username)
        THEN ConfigFailure(<<"SSH_HOST and SSH_USERNAME environment variables are required">>)
        ELSE IF Truthy(password)
        THEN [ok |-> TRUE, config |-> [config EXCEPT !.password = password]]
        ELSE IF Truthy(privateKeyPath)
        THEN IF e.keyFile.t = "undefined"
             THEN ConfigFailure(<<"Failed to read private key from ">>
                                \o String(privateKeyPath) \o <<": ENOENT">>)
             ELSE [ok |-> TRUE, config |-> [config EXCEPT !.privateKey = e.keyFile]]
        ELSE ConfigFailure(<<"Either SSH_PASSWORD or SSH_PRIVATE_KEY_PATH must be provided">>)

getSSHConfig(e) ==
    LET host == e.SSH_HOST
        port == parseInt(String(Or(e.SSH_PORT, Str(<<"2", "2">>))))
        username == e.SSH_USERNAME
        password == e.SSH_PASSWORD
        privateKeyPath == e.SSH_PRIVATE_KEY_PATH
        passphrase == e.SSH_PASSPHRASE
        config == [host |-> String(host), port |-> port, username |-> String(username),
                   password |-> Undefined, privateKey |-> Undefined,
                   passphrase |-> Undefined]
    IN  IF ~Truthy(host) \/ ~Truthy(username)
        THEN ConfigFailure(<<"SSH_HOST and SSH_USERNAME environment variables are required">>)
        ELSE IF Truthy(password)
        THEN [ok |-> TRUE, config |-> [config EXCEPT !.password = password]]
        ELSE IF Truthy(privateKeyPath)
        THEN IF e.keyFile.t = "undefined"   \* fs.readFileSync throws
             THEN ConfigFailure(<<"Failed to read private key from ">>
                                \o String(privateKeyPath) \o <<": ENOENT">>)
             ELSE [ok |-> TRUE,
                   config |-> [config EXCEPT
                       !.privateKey = e.keyFile,
                       !.passphrase = IF Truthy(passphrase) THEN passphrase ELSE Undefined]]
        ELSE ConfigFailure(<<"Either SSH_PASSWORD or SSH_PRIVATE_KEY_PATH must be provided">>)

\* `${config.host}:${config.port}:${config.username}`
connectionKey(config) ==
    config.host \o <<":">> \o NumberToString(config.port) \o <<":">> \o config.username

\* The environments the process is started in.
PasswordEnv ==
    [SSH_HOST |-> Str(<<"h">>), SSH_PORT |-> Undefined, SSH_USERNAME |-> Str(<<"u">>),
     SSH_PASSWORD |-> Str(<<"pw">>), SSH_PRIVATE_KEY_PATH |-> Undefined,
     SSH_PASSPHRASE |-> Undefined, keyFile |-> Undefined]
Envs ==
    { PasswordEnv,
      [PasswordEnv EXCEPT !.SSH_HOST = Undefined],
      [PasswordEnv EXCEPT !.SSH_PASSWORD = Undefined,
                          !.SSH_PRIVATE_KEY_PATH = Str(<<"/k">>)] }

(***************************************************************************)
(* The program state as one record, so that a handler, which is a chain of *)
(* calls, can be written as a composition of state transformers.           *)
(***************************************************************************)
State ==
    [connections |-> connections, clients |-> clients, tasks |-> tasks,
     calls |-> calls, proc |-> proc, exit |-> exit]

Become(s) ==
    /\ connections' = s.connections
    /\ clients' = s.clients
    /\ tasks' = s.tasks
    /\ calls' = s.calls
    /\ proc' = s.proc
    /\ exit' = s.exit

Has(s, key) == key \in DOMAIN s.connections

\* Map.prototype.set
MapSet(m, key, value) ==
    [k \in DOMAIN m \cup {key} |-> IF k = key THEN value ELSE m[k]]

(***************************************************************************)
(* The CallTool handler's return and catch: the response of a request.     *)
(***************************************************************************)
NoResponse == [isError |-> FALSE, text |-> <<>>]

\* return { content: [{ type: "text", text }] }
Return(s, d, text) ==
    [s EXCEPT !.calls[d].pc = "responded",
              !.calls[d].answers = @ + 1,
              !.calls[d].response = [isError |-> FALSE, text |-> text]]

\* catch (error) { return { content: [... `错误: ${error}`], isError: true } }
\* (the prefix is written "error: " here)
Catch(s, d, message) ==
    [s EXCEPT !.calls[d].pc = "responded",
              !.calls[d].answers = @ + 1,
              !.calls[d].response =
                  [isError |-> TRUE, text |-> <<"error: ">> \o ErrorText(message)]]

(***************************************************************************)
(* system_monitor: the command list of each monitor type.                  *)
(***************************************************************************)
\* (a table whose memory entry lost its second command)
MonitorCommandsShort(monitorType) ==
    CASE monitorType = <<"cpu">> -> << <<"top -bn1 | head -20">> >>
      [] monitorType = <<"memory">> -> << <<"free -h">> >>
      [] monitorType = <<"disk">> -> << <<"df -h">>, <<"lsblk">> >>
      [] monitorType = <<"network">> -> << <<"netstat -tuln">>, <<"ss -tuln">> >>
      [] OTHER -> << <<"uptime">>, <<"free -h">>, <<"df -h">>, <<"top -bn1 | head -10">>,
                     <<"netstat -tuln | head -10">> >>

MonitorCommands(monitorType) ==
    CASE monitorType = <<"cpu">> -> << <<"top -bn1 | head -20">> >>
      [] monitorType = <<"memory">> -> << <<"free -h">>, <<"cat /proc/meminfo | head -10">> >>
      [] monitorType = <<"disk">> -> << <<"df -h">>, <<"lsblk">> >>
      [] monitorType = <<"network">> -> << <<"netstat -tuln">>, <<"ss -tuln">> >>
      [] OTHER -> << <<"uptime">>, <<"free -h">>, <<"df -h">>, <<"top -bn1 | head -10">>,
                     <<"netstat -tuln | head -10">> >>

monitorType(request) == String(Or(Arg(request, "type"), Str(<<"all">>)))

\* (a result array filled in the order of completion)
PromiseAllPush(results, index, value) ==
    LET free == CHOOSE i \in 1..Len(results) :
                    ~results[i].done /\ \A j \in 1..(i - 1) : results[j].done
    IN  [results EXCEPT ![free] = [done |-> TRUE, value |-> value]]

\* Promise.all: the value of the promise at position index is stored at
\* that position of the result array.
PromiseAllStore(results, index, value) ==
    [results EXCEPT ![index] = [done |-> TRUE, value |-> value]]

PromiseAllDone(results) == \A i \in 1..Len(results) : results[i].done

\* results.map((result, index) => `=== ${commands[index]} ===\n${result.stdout}\n`).join('\n')
RECURSIVE MonitorOutput(_, _, _)
MonitorOutput(commands, results, i) ==
    IF i > Len(results) THEN <<>>
    ELSE (IF i > 1 THEN <<"\n">> ELSE <<>>)
         \o <<"=== ">> \o commands[i] \o <<" ===\n">> \o results[i].value.stdout \o <<"\n">>
         \o MonitorOutput(commands, results, i + 1)

(***************************************************************************)
(* The CallTool handler after its await: what it does with the settled     *)
(* promise of executor task t.                                             *)
(***************************************************************************)
NewTask(d, index, kind, arg, arg2) ==
    [call |-> d, index |-> index, kind |-> kind, arg |-> arg, arg2 |-> arg2,
     pc |-> "start", conn |-> 0,
     \* `const config = getSSHConfig()` of getSSHConnection (undefined: it threw)
     config |-> Undefined,
     stdout |-> <<>>, stderr |-> <<>>, exitCode |-> 0, data |-> <<>>, error |-> <<>>,
     \* the number of bytes readStream.pipe(writeStream) has moved
     offset |-> 0,
     \* what the remote side did on the task's channel
     sentOut |-> <<>>, sentErr |-> <<>>, eof |-> FALSE, closed |-> FALSE, closeCode |-> 0]

\* The { stdout, stderr, exitCode } an exec task resolved with.
ResultOf(task) ==
    [stdout |-> task.stdout, stderr |-> task.stderr, exitCode |-> task.exitCode]

ResumeHandler(s, t) ==
    LET task == s.tasks[t]
        d == task.call
        call == s.calls[d]
        request == call.request
        name == request.name
    IN  IF call.pc # "pending" THEN s   \* Promise.all has already rejected
        ELSE IF task.pc = "rejected" THEN Catch(s, d, task.error)
        ELSE CASE name = "execute_command" ->
                    Return(s, d, <<"command: ">> \o task.arg
                                 \o <<"\nexit code: ">> \o NatToString(task.exitCode)
                                 \o <<"\n\nstdout:\n">> \o task.stdout
                                 \o <<"\n\nstderr:\n">> \o task.stderr)
               [] name = "read_file" ->
                    Return(s, d, <<"file: ">> \o task.arg \o <<"\n\ncontent:\n">> \o task.data)
               [] name = "write_file" ->
                    IF task.exitCode = 0
                    THEN Return(s, d, <<"file ">> \o String(Arg(request, "path"))
                                      \o <<" written">>)
                    ELSE Catch(s, d, <<"write failed: ">> \o task.stderr)
               [] name = "upload_file" ->
                    Return(s, d, <<"file ">> \o task.arg \o <<" uploaded to ">> \o task.arg2)
               [] name = "download_file" ->
                    Return(s, d, <<"file ">> \o task.arg \o <<" downloaded to ">> \o task.arg2)
               [] name = "list_directory" ->
                    Return(s, d, <<"directory: ">> \o String(Or(Arg(request, "path"), Str(<<".">>)))
                                 \o <<"\n\n">> \o task.stdout)
               [] name = "system_monitor" ->
                    LET results == PromiseAllStore(call.results, task.index, ResultOf(task))
                        s1 == [s EXCEPT !.calls[d].results = results]
                    IN  IF PromiseAllDone(results)
                        THEN Return(s1, d, <<"monitor (">> \o monitorType(request) \o <<"):\n\n">>
                                       \o MonitorOutput(call.commands, results, 1))
                        ELSE s1

\* reject(err) of the task's promise, and the continuation awaiting it
Reject(s, t, err) ==
    ResumeHandler([s EXCEPT !.tasks[t].pc = "rejected", !.tasks[t].error = err], t)

\* resolve(...) of the task's promise, and the continuation awaiting it
Resolve(s, t) ==
    ResumeHandler([s EXCEPT !.tasks[t].pc = "resolved"], t)

(***************************************************************************)
(* The executor functions, after `const conn = await getSSHConnection()`.  *)
(* conn.exec and conn.sftp throw "Not connected" on a Client whose         *)
(* connection is gone; thrown in a promise executor, that rejects.         *)
(***************************************************************************)
UseConnection(s, t, c) ==
    IF s.clients[c].state # "ready"
    THEN Reject([s EXCEPT !.tasks[t].conn = c], t, <<"Not connected">>)
    ELSE [s EXCEPT !.tasks[t].conn = c,
                   !.tasks[t].pc = IF s.tasks[t].kind = "exec" THEN "exec" ELSE "sftp"]

(***************************************************************************)
(* createSSHConnection and getSSHConnection                                *)
(***************************************************************************)
\* new Client(); conn.on('ready'); conn.on('error'); conn.connect(config):
\* the promise is pending until one of the two events.
createSSHConnection(s, key, t) ==
    [s EXCEPT !.clients = Append(@, [key |-> key, state |-> "connecting", waiter |-> t]),
              !.tasks[t].pc = "connect"]

getSSHConnection(s, t) ==
    LET r == getSSHConfig(env) IN
    IF ~r.ok THEN Reject(s, t, r.error)
    ELSE LET key == connectionKey(r.config)
             s1 == [s EXCEPT !.tasks[t].config = r.config]
         IN  IF Has(s1, key)
             THEN UseConnection(s1, t, s1.connections[key])
             ELSE createSSHConnection(s1, key, t)

\* `conn = await createSSHConnection(config); connections.set(connectionKey, conn);
\* return conn` once the Client c is ready
ConnectionCreated(s, c) ==
    LET s1 == [s EXCEPT !.connections = MapSet(@, s.clients[c].key, c)]
    IN  UseConnection(s1, s.clients[c].waiter, c)

\* An executor function called by request d: it runs up to its first
\* suspension inside the caller's step.
Execute(s, d, index, kind, arg, arg2) ==
    getSSHConnection([s EXCEPT !.tasks = Append(@, NewTask(d, index, kind, arg, arg2))],
                     Len(s.tasks) + 1)

executeRemoteCommand(s, d, index, command) == Execute(s, d, index, "exec", command, <<>>)
getRemoteFileContent(s, d, filePath) == Execute(s, d, 1, "read", filePath, <<>>)
uploadFile(s, d, localPath, remotePath) == Execute(s, d, 1, "upload", localPath, remotePath)
downloadFile(s, d, remotePath, localPath) == Execute(s, d, 1, "download", remotePath, localPath)

(***************************************************************************)
(* JSON.stringify of a string, character by character.                     *)
(***************************************************************************)
DQ == "\""
BS == "\\"
NL == "\n"
\* the backquote character
BT == "BQ"

JSONEscape(c) ==
    CASE c = DQ -> <<BS, DQ>>
      [] c = BS -> <<BS, BS>>
      [] c = NL -> <<BS, "n">>
      [] OTHER -> <<c>>

RECURSIVE JSONEscapeAll(_)
JSONEscapeAll(str) ==
    IF str = <<>> THEN <<>> ELSE JSONEscape(Head(str)) \o JSONEscapeAll(Tail(str))

JSONStringify(str) == <<DQ>> \o JSONEscapeAll(str) \o <<DQ>>

\* `echo ${JSON.stringify(content)} > ${JSON.stringify(filePath)}`
WriteCommand(content, filePath) ==
    <<"echo", " ">> \o JSONStringify(content) \o <<" ", ">", " ">> \o JSONStringify(filePath)

\* detailed ? `ls -la ${JSON.stringify(dirPath)}` : `ls ${JSON.stringify(dirPath)}`
ListCommand(dirPath, detailed) ==
    (IF detailed THEN <<"ls", " ", "-la", " ">> ELSE <<"ls", " ">>) \o JSONStringify(dirPath)

(***************************************************************************)
(* The remote shell, as far as the commands built by write_file need it:   *)
(* echo of a double-quoted word, redirected to a double-quoted word, with  *)
(* the POSIX double-quote rules.  Inside double quotes a backslash escapes *)
(* only the dollar sign, the backquote, the double quote, the backslash    *)
(* and the newline; dollar-parenthesis starts a command substitution, a    *)
(* dollar sign and a name a parameter expansion, a backquote a command     *)
(* substitution.                                                           *)
(***************************************************************************)
IsNameChar(c) == c \in {"a", "n"}

\* Position of the parenthesis that closes the command substitution whose
\* body starts at i, or 0.
RECURSIVE CloseParen(_, _, _)
CloseParen(cmd, i, depth) ==
    IF i > Len(cmd) THEN 0
    ELSE IF cmd[i] = ")" THEN (IF depth = 0 THEN i ELSE CloseParen(cmd, i + 1, depth - 1))
    ELSE IF cmd[i] = "(" THEN CloseParen(cmd, i + 1, depth + 1)
    ELSE CloseParen(cmd, i + 1, depth)

\* Position of the unescaped backquote that closes the one before i, or 0.
RECURSIVE CloseBacktick(_, _)
CloseBacktick(cmd, i) ==
    IF i > Len(cmd) THEN 0
    ELSE IF cmd[i] = BT THEN i
    ELSE IF cmd[i] = BS THEN CloseBacktick(cmd, i + 2)
    ELSE CloseBacktick(cmd, i + 1)

\* Position after the parameter name that starts at i.
RECURSIVE NameEnd(_, _)
NameEnd(cmd, i) ==
    IF i <= Len(cmd) /\ IsNameChar(cmd[i]) THEN NameEnd(cmd, i + 1) ELSE i

Slice(cmd, i, j) == SubSeq(cmd, i, j)

\* What a command substitution or a parameter expansion leaves in the word.
Expanded == "<expansion>"

SyntaxError == [ok |-> FALSE, text |-> <<>>, executed |-> {}, expanded |-> {}, next |-> 0]

\* The word inside double quotes, from position i (after the opening quote)
\* up to the closing quote.
RECURSIVE DoubleQuoted(_, _, _)
DoubleQuoted(cmd, i, w) ==
    IF i > Len(cmd) THEN SyntaxError
    ELSE LET c == cmd[i] IN
    CASE c = DQ -> [w EXCEPT !.next = i + 1]
      [] c = BS ->
            IF i + 1 > Len(cmd) THEN SyntaxError
            ELSE IF cmd[i + 1] \in {"$", BT, DQ, BS}
            THEN DoubleQuoted(cmd, i + 2, [w EXCEPT !.text = @ \o <<cmd[i + 1]>>])
            ELSE IF cmd[i + 1] = NL
            THEN DoubleQuoted(cmd, i + 2, w)
            ELSE DoubleQuoted(cmd, i + 1, [w EXCEPT !.text = @ \o <<BS>>])
      [] c = "$" ->
            IF i + 1 <= Len(cmd) /\ cmd[i + 1] = "("
            THEN LET j == CloseParen(cmd, i + 2, 0) IN
                 IF j = 0 THEN SyntaxError
                 ELSE DoubleQuoted(cmd, j + 1,
                          [w EXCEPT !.text = @ \o <<Expanded>>,
                                    !.executed = @ \cup {Slice(cmd, i + 2, j - 1)}])
            ELSE IF i + 1 <= Len(cmd) /\ IsNameChar(cmd[i + 1])
            THEN LET j == NameEnd(cmd, i + 1) IN
                 DoubleQuoted(cmd, j,
                     [w EXCEPT !.text = @ \o <<Expanded>>,
                               !.expanded = @ \cup {Slice(cmd, i + 1, j - 1)}])
            ELSE DoubleQuoted(cmd, i + 1, [w EXCEPT !.text = @ \o <<"$">>])
      [] c = BT ->
            LET j == CloseBacktick(cmd, i + 1) IN
            IF j = 0 THEN SyntaxError
            ELSE DoubleQuoted(cmd, j + 1,
                     [w EXCEPT !.text = @ \o <<Expanded>>,
                               !.executed = @ \cup {Slice(cmd, i + 1, j - 1)}])
      [] OTHER -> DoubleQuoted(cmd, i + 1, [w EXCEPT !.text = @ \o <<c>>])

EmptyWord == [ok |-> TRUE, text |-> <<>>, executed |-> {}, expanded |-> {}, next |-> 0]

\* The output of echo for its operand: the operand and a newline.  An XSI
\* echo (dash) interprets backslash escapes in the operand, the echo of bash
\* does not.
EchoFlavours == {"plain", "xsi"}

RECURSIVE EchoEscapes(_)
EchoEscapes(text) ==
    IF text = <<>> THEN <<>>
    ELSE IF Head(text) = BS /\ Len(text) >= 2 /\ text[2] = "n"
    THEN <<NL>> \o EchoEscapes(Tail(Tail(text)))
    ELSE IF Head(text) = BS /\ Len(text) >= 2 /\ text[2] = BS
    THEN <<BS>> \o EchoEscapes(Tail(Tail(text)))
    ELSE <<Head(text)>> \o EchoEscapes(Tail(text))

Echo(text, echo) == (IF echo = "xsi" THEN EchoEscapes(text) ELSE text) \o <<NL>>

IsEchoCommand(cmd) == Len(cmd) >= 3 /\ cmd[1] = "echo" /\ cmd[2] = " " /\ cmd[3] = DQ

\* The run of an echo command by the shell: the file written, its content,
\* the commands executed by substitution and the parameters expanded.
ShellEcho(cmd, echo) ==
    LET w1 == DoubleQuoted(cmd, 4, EmptyWord)
        i == w1.next
        redirect == w1.ok /\ i + 3 <= Len(cmd) /\ cmd[i] = " " /\ cmd[i + 1] = ">"
                    /\ cmd[i + 2] = " " /\ cmd[i + 3] = DQ
        w2 == IF redirect THEN DoubleQuoted(cmd, i + 4, EmptyWord) ELSE SyntaxError
    IN  IF w2.ok /\ w2.next = Len(cmd) + 1
        THEN [ok |-> TRUE, file |-> w2.text, content |-> Echo(w1.text, echo),
              executed |-> w1.executed \cup w2.executed,
              expanded |-> w1.expanded \cup w2.expanded]
        ELSE [ok |-> FALSE, file |-> <<>>, content |-> <<>>, executed |-> {}, expanded |-> {}]

\* The remote host after its shell ran cmd.  Only the effect of the echo
\* commands is followed.
RemoteRun(r, cmd, echo) ==
    IF ~IsEchoCommand(cmd) THEN r
    ELSE LET run == ShellEcho(cmd, echo) IN
         IF ~run.ok THEN r
         ELSE [files |-> MapSet(r.files, run.file, run.content),
               executed |-> r.executed \cup run.executed \cup run.expanded]


(***************************************************************************)
(* The CallTool request handler, up to its first suspension.               *)
(***************************************************************************)
NewCall(request) ==
    [request |-> request, pc |-> "pending", response |-> NoResponse,
     commands |-> <<>>, results |-> <<>>,
     \* the number of times the handler returned a response for the request
     answers |-> 0,
     \* the position of the command whose channel closed first (0: none yet)
     firstClosed |-> 0]

\* commands.map(cmd => executeRemoteCommand(cmd)), from position i on
RECURSIVE MapExecute(_, _, _, _)
MapExecute(s, d, commands, i) ==
    IF i > Len(commands) THEN s
    ELSE MapExecute(executeRemoteCommand(s, d, i, commands[i]), d, commands, i + 1)

SystemMonitor(s, d, request) ==
    LET commands == MonitorCommands(monitorType(request))
        pending == [i \in 1..Len(commands) |->
                       [done |-> FALSE, value |-> ResultOf(NewTask(d, i, "exec", <<>>, <<>>))]]
    IN  MapExecute([s EXCEPT !.calls[d].commands = commands, !.calls[d].results = pending],
                   d, commands, 1)

\* default: throw new Error(`Unknown tool: ${request.params.name}`)
UnknownToolClearsPool(s, d, name) ==
    [Catch(s, d, <<"Unknown tool: ", name>>) EXCEPT !.connections = <<>>]
UnknownTool(s, d, name) == Catch(s, d, <<"Unknown tool: ", name>>)

CallTool(s, d) ==
    LET request == s.calls[d].request
        name == request.name
    IN  CASE name = "execute_command" ->
                LET command == String(Arg(request, "command")) IN
                IF command = <<>> THEN Catch(s, d, <<"Command is required">>)
                ELSE executeRemoteCommand(s, d, 1, command)
          [] name = "read_file" ->
                LET filePath == String(Arg(request, "path")) IN
                IF filePath = <<>> THEN Catch(s, d, <<"File path is required">>)
                ELSE getRemoteFileContent(s, d, filePath)
          [] name = "write_file" ->
                LET filePath == String(Arg(request, "path"))
                    content == String(Arg(request, "content"))
                IN  IF filePath = <<>> \/ content = <<>>
                    THEN Catch(s, d, <<"File path and content are required">>)
                    ELSE executeRemoteCommand(s, d, 1, WriteCommand(content, filePath))
          [] name = "upload_file" ->
                LET localPath == String(Arg(request, "local_path"))
                    remotePath == String(Arg(request, "remote_path"))
                IN  IF localPath = <<>> \/ remotePath = <<>>
                    THEN Catch(s, d, <<"Local path and remote path are required">>)
                    ELSE uploadFile(s, d, localPath, remotePath)
          [] name = "download_file" ->
                LET remotePath == String(Arg(request, "remote_path"))
                    localPath == String(Arg(request, "local_path"))
                IN  IF remotePath = <<>> \/ localPath = <<>>
                    THEN Catch(s, d, <<"Remote path and local path are required">>)
                    ELSE downloadFile(s, d, remotePath, localPath)
          [] name = "list_directory" ->
                LET dirPath == String(Or(Arg(request, "path"), Str(<<".">>)))
                    detailed == Truthy(Arg(request, "detailed"))
                IN  executeRemoteCommand(s, d, 1, ListCommand(dirPath, detailed))
          [] name = "system_monitor" -> SystemMonitor(s, d, request)
          [] OTHER -> UnknownTool(s, d, name)

(***************************************************************************)
(* The requests a client sends.                                            *)
(***************************************************************************)
Texts(v) == {Undefined, Str(<<>>), Str(v)}

Request(name, arguments) == [name |-> name, arguments |-> arguments]

\* Every combination of present, missing and empty arguments of the tools
\* that take arguments, and a tool that does not exist.
InputRequests ==
    {Request("execute_command", [command |-> c]) : c \in Texts(<<"ls">>)}
    \cup {Request("read_file", [path |-> p]) : p \in Texts(<<"/r">>)}
    \cup {Request("write_file", [path |-> p, content |-> c]) :
             p \in Texts(<<"/r">>), c \in Texts(<<"x">>)}
    \cup {Request("upload_file", [local_path |-> l, remote_path |-> r]) :
             l \in Texts(<<"/l">>), r \in Texts(<<"/r">>)}
    \cup {Request("download_file", [remote_path |-> r, local_path |-> l]) :
             r \in Texts(<<"/r">>), l \in Texts(<<"/l">>)}
    \cup {Request("list_directory", [path |-> p, detailed |-> b]) :
             p \in Texts(<<"/d">>), b \in {Undefined, Bool(TRUE)}}
    \cup {Request("reboot", [command |-> Str(<<"ls">>)])}

\* Every monitor type: the five of the schema, none, and one outside it.
MonitorRequests ==
    {Request("system_monitor", [type |-> k]) :
        k \in {Undefined, Str(<<"cpu">>), Str(<<"memory">>), Str(<<"disk">>),
               Str(<<"network">>), Str(<<"all">>), Str(<<"gpu">>)}}

\* write_file of every content and path over the characters that matter to
\* a shell.
ShellAlphabet == {"a", DQ, BS, "$", "(", ")", BT, NL}
StringsUpTo(n) == UNION {[1..k -> ShellAlphabet] : k \in 0..n}
QuoteRequests ==
    {Request("write_file", [path |-> Str(p), content |-> Str(c)]) :
        p \in StringsUpTo(MaxPath), c \in StringsUpTo(MaxContent)}

\* One well-formed request of every tool, and one of a tool that does not
\* exist.
Requests ==
    { Request("execute_command", [command |-> Str(<<"ls">>)]),
      Request("read_file", [path |-> Str(<<"/r">>)]),
      Request("write_file", [path |-> Str(<<"/r">>), content |-> Str(<<"x">>)]),
      Request("upload_file", [local_path |-> Str(<<"/l">>), remote_path |-> Str(<<"/r">>)]),
      Request("download_file", [remote_path |-> Str(<<"/r">>), local_path |-> Str(<<"/l">>)]),
      Request("list_directory", [path |-> Str(<<"/d">>), detailed |-> Undefined]),
      Request("system_monitor", [type |-> Str(<<"memory">>)]),
      Request("reboot", [command |-> Str(<<"ls">>)]) }

\* The data chunks the remote side sends are told apart by their content:
\* the k-th chunk of a behaviour is ChunkNames[k].
ChunkNames == <<"c1", "c2", "c3", "c4", "c5", "c6", "c7", "c8">>
Chunks == {ChunkNames[delivered + 1]}
ExitCodes == {0, 1, 127}

(***************************************************************************)
(* Event handlers registered by the executor functions.                    *)
(***************************************************************************)
\* stream.on('data', data => { stdout += data.toString() })
OnData(task, data) == [task EXCEPT !.stdout = @ \o <<data>>]

\* stream.stderr.on('data', data => { stderr += data.toString() })
OnStderrData(task, data) == [task EXCEPT !.stderr = @ \o <<data>>]

\* (a close listener that drops the code and resolves with exit code 0)
OnCloseDropsCode(s, t, code) == Resolve([s EXCEPT !.tasks[t].exitCode = 0], t)

\* stream.on('close', code => resolve({ stdout, stderr, exitCode: code }))
OnClose(s, t, code) == Resolve([s EXCEPT !.tasks[t].exitCode = code], t)

\* (a listener that resolves when the output ends)
OnEndResolves(s, t) == Resolve(s, t)

\* No listener is registered for the stream's 'end' event.
OnEnd(s, t) == s

\* conn.exec's callback
OnExec(s, t, err) ==
    IF err # <<>> THEN Reject(s, t, err) ELSE [s EXCEPT !.tasks[t].pc = "stream"]

\* conn.sftp's callback
OnSftp(s, t, err) ==
    IF err # <<>> THEN Reject(s, t, err)
    ELSE IF s.tasks[t].kind = "read"
         THEN [s EXCEPT !.tasks[t].pc = "readFile"]    \* sftp.readFile(filePath, 'utf8', cb)
         ELSE [s EXCEPT !.tasks[t].pc = "pipe"]        \* readStream.pipe(writeStream)

\* sftp.readFile's callback
OnReadFile(s, t, err, data) ==
    IF err # <<>> THEN Reject(s, t, err) ELSE Resolve([s EXCEPT !.tasks[t].data = data], t)

\* writeStream.on('close', () => resolve())
OnWriteClose(s, t) == Resolve(s, t)

\* writeStream.on('error', err => reject(err))
OnWriteError(s, t, err) == Reject(s, t, err)

\* An exception that nothing catches ends the process with exit code 1.
Uncaught(s) == [s EXCEPT !.proc = "crashed", !.exit.code = <<1>>]

\* readStream has no 'error' listener: an EventEmitter that emits 'error'
\* without a listener throws, and nothing catches it.
OnReadError(s, t, err) == Uncaught([s EXCEPT !.tasks[t].error = err])

\* conn.on('ready', () => resolve(conn))
OnReady(s, c) == ConnectionCreated([s EXCEPT !.clients[c].state = "ready"], c)

\* (an error listener that also removes the Client from the pool)
OnErrorEvicts(s, c, err) ==
    LET kept == {k \in DOMAIN s.connections : s.connections[k] # c}
        s1 == [s EXCEPT !.connections = [k \in kept |-> s.connections[k]]]
    IN  IF s.clients[c].state = "connecting"
        THEN Reject([s1 EXCEPT !.clients[c].state = "failed"], s.clients[c].waiter, err)
        ELSE [s1 EXCEPT !.clients[c].state = "lost"]

\* conn.on('error', err => reject(err)): a rejection of a settled promise
\* does nothing.
OnError(s, c, err) ==
    IF s.clients[c].state = "connecting"
    THEN Reject([s EXCEPT !.clients[c].state = "failed"], s.clients[c].waiter, err)
    ELSE [s EXCEPT !.clients[c].state = "lost"]

\* conn.end() of every Client in the set ended
EndAll(s, ended) ==
    [s EXCEPT !.clients = [c \in DOMAIN @ |->
                              IF c \in ended THEN [@[c] EXCEPT !.state = "ended"] ELSE @[c]]]

\* The Clients the pool holds.
Pooled(s) == {s.connections[k] : k \in DOMAIN s.connections}

\* process.on('SIGINT' / 'SIGTERM', () => { connections.forEach(conn => conn.end());
\* process.exit(0) }).  No try surrounds conn.end(): when the call on the
\* Client failing throws (0: no call throws), forEach stops after the Clients
\* in before, process.exit(0) is not reached and the exception is uncaught.
OnSignal(s, signal, before, failing) ==
    IF failing = 0
    THEN [EndAll(s, Pooled(s)) EXCEPT !.proc = "exited",
                                      !.exit = [signal |-> signal, code |-> <<0>>]]
    ELSE Uncaught([EndAll(s, before) EXCEPT !.exit.signal = signal])

(***************************************************************************)
(* Initial state and actions.  The arguments maxCalls, maxTasks, maxData   *)
(* and maxFaults bound the requests, executor calls, data chunks and       *)
(* failures of a behaviour.                                                *)
(***************************************************************************)
\* The process before any signal: no signal received, no exit code.
NotExited == [signal |-> "none", code |-> <<>>]

\* The local files when the process starts.
LocalFiles == [p \in {<<"/l">>} |-> <<"b1", "b2">>]

Init ==
    /\ env \in Envs
    /\ connections = <<>>
    /\ clients = <<>>
    /\ tasks = <<>>
    /\ calls = <<>>
    /\ proc = "running"
    /\ remote = [files |-> <<>>, executed |-> {}]
    /\ local = [files |-> LocalFiles]
    /\ exit = NotExited
    /\ faults = 0
    /\ delivered = 0

Running == proc = "running"
Fault(maxFaults) == faults < maxFaults /\ faults' = faults + 1
\* (one operation at a time: an event is handled only when every earlier
\* operation has settled)
TaskAtInTurn(t, pc) ==
    /\ t \in 1..Len(tasks) /\ tasks[t].pc = pc
    /\ \A u \in 1..(t - 1) : tasks[u].pc \in {"resolved", "rejected"}

TaskAt(t, pc) == t \in 1..Len(tasks) /\ tasks[t].pc = pc

\* A CallTool request arrives.
Dispatch(request, maxCalls, maxTasks) ==
    /\ Running
    /\ Len(calls) < maxCalls
    /\ Become(CallTool([State EXCEPT !.calls = Append(@, NewCall(request))], Len(calls) + 1))
    /\ Len(tasks') <= maxTasks
    /\ UNCHANGED <<env, local, remote, faults, delivered>>

\* The Client emits 'ready'.
ConnReady(c) ==
    /\ Running
    /\ clients[c].state = "connecting"
    /\ Become(OnReady(State, c))
    /\ UNCHANGED <<env, local, remote, faults, delivered>>

\* The Client emits 'error': while connecting, or once the connection that
\* was ready is lost.
ConnError(c, maxFaults) ==
    /\ Running
    /\ clients[c].state \in {"connecting", "ready"}
    /\ Fault(maxFaults)
    /\ Become(OnError(State, c, <<"connect ECONNREFUSED">>))
    /\ UNCHANGED <<env, local, remote, delivered>>

\* conn.exec calls back with the channel's stream: the remote shell runs
\* the command.
ExecOpened(t, echo) ==
    /\ Running /\ TaskAt(t, "exec")
    /\ Become(OnExec(State, t, <<>>))
    /\ remote' = RemoteRun(remote, tasks[t].arg, echo)
    /\ UNCHANGED <<env, local, faults, delivered>>

\* conn.exec calls back with an error.
ExecFailed(t, maxFaults) ==
    /\ Running /\ TaskAt(t, "exec")
    /\ Fault(maxFaults)
    /\ Become(OnExec(State, t, <<"Unable to exec">>))
    /\ UNCHANGED <<env, local, remote, delivered>>

\* (one output buffer per Client: the chunk reaches every command that is
\* running on the Client of t)
StreamDataShared(t, chunk, maxData) ==
    /\ Running /\ TaskAt(t, "stream")
    /\ ~tasks[t].eof
    /\ delivered < maxData
    /\ delivered' = delivered + 1
    /\ tasks' = [u \in DOMAIN tasks |->
                    IF u = t THEN [OnData(tasks[u], chunk) EXCEPT !.sentOut = @ \o <<chunk>>]
                    ELSE IF tasks[u].pc = "stream" /\ tasks[u].conn = tasks[t].conn
                    THEN OnData(tasks[u], chunk)
                    ELSE tasks[u]]
    /\ UNCHANGED <<env, local, remote, connections, clients, calls, proc, exit, faults>>

\* A chunk of the command's standard output arrives.
StreamData(t, chunk, maxData) ==
    /\ Running /\ TaskAt(t, "stream")
    /\ ~tasks[t].eof
    /\ delivered < maxData
    /\ delivered' = delivered + 1
    /\ tasks' = [tasks EXCEPT ![t] = [OnData(@, chunk) EXCEPT !.sentOut = @ \o <<chunk>>]]
    /\ UNCHANGED <<env, local, remote, connections, clients, calls, proc, exit, faults>>

\* A chunk of the command's standard error arrives.
StreamStderrData(t, chunk, maxData) ==
    /\ Running /\ TaskAt(t, "stream")
    /\ delivered < maxData
    /\ delivered' = delivered + 1
    /\ tasks' = [tasks EXCEPT ![t] = [OnStderrData(@, chunk) EXCEPT !.sentErr = @ \o <<chunk>>]]
    /\ UNCHANGED <<env, local, remote, connections, clients, calls, proc, exit, faults>>

\* The command's standard output ends (the channel is still open).
StreamEnd(t) ==
    /\ Running /\ TaskAt(t, "stream")
    /\ ~tasks[t].eof
    /\ Become(OnEnd([State EXCEPT !.tasks[t].eof = TRUE], t))
    /\ UNCHANGED <<env, local, remote, faults, delivered>>

\* The channel closes with the command's exit code.
StreamClose(t, code) ==
    /\ Running /\ TaskAt(t, "stream")
    /\ Become(OnClose([State EXCEPT
           !.tasks[t].eof = TRUE, !.tasks[t].closed = TRUE, !.tasks[t].closeCode = code,
           !.calls[tasks[t].call].firstClosed = IF @ = 0 THEN tasks[t].index ELSE @], t, code))
    /\ UNCHANGED <<env, local, remote, faults, delivered>>

\* The files a transfer reads from, and the source file's content.
SourceFiles(task) == IF task.kind = "upload" THEN local.files ELSE remote.files
SourceExists(task) == task.arg \in DOMAIN SourceFiles(task)
SourceContent(task) == SourceFiles(task)[task.arg]

\* The next n bytes the read stream delivers.
Chunk(content, offset, n) == SubSeq(content, offset + 1, offset + n)

\* (a write stream that writes every chunk at the start of the file)
WriteAtStart(content, offset, chunk) ==
    chunk \o SubSeq(content, Len(chunk) + 1, Len(content))

\* writeStream.write(chunk): the chunk is written at the stream's position,
\* after the bytes the stream wrote before.
WriteAt(content, offset, chunk) ==
    SubSeq(content, 1, IF offset < Len(content) THEN offset ELSE Len(content))
    \o chunk \o SubSeq(content, offset + Len(chunk) + 1, Len(content))

\* The files of the destination side after the transfer's write stream
\* changed its file to content.
Written(task, content) ==
    IF task.kind = "upload"
    THEN /\ remote' = [remote EXCEPT !.files = MapSet(@, task.arg2, content)]
         /\ UNCHANGED local
    ELSE /\ local' = [local EXCEPT !.files = MapSet(@, task.arg2, content)]
         /\ UNCHANGED remote

\* conn.sftp calls back with the sftp session.  A transfer creates its two
\* streams: the write stream opens its file with flag w, which creates or
\* empties it.
SftpOpened(t) ==
    /\ Running /\ TaskAt(t, "sftp")
    /\ Become(OnSftp(State, t, <<>>))
    /\ IF tasks[t].kind = "read" THEN UNCHANGED <<local, remote>> ELSE Written(tasks[t], <<>>)
    /\ UNCHANGED <<env, faults, delivered>>

\* readStream.pipe(writeStream) moves the next n bytes of the source.
PipeData(t, n) ==
    /\ Running /\ TaskAt(t, "pipe")
    /\ SourceExists(tasks[t])
    /\ tasks[t].offset + n <= Len(SourceContent(tasks[t]))
    /\ LET task == tasks[t]
           files == IF task.kind = "upload" THEN remote.files ELSE local.files
           chunk == Chunk(SourceContent(task), task.offset, n)
       IN  Written(task, WriteAt(files[task.arg2], task.offset, chunk))
    /\ tasks' = [tasks EXCEPT ![t].offset = @ + n]
    /\ UNCHANGED <<env, connections, clients, calls, proc, exit, faults, delivered>>

\* conn.sftp calls back with an error.
SftpFailed(t, maxFaults) ==
    /\ Running /\ TaskAt(t, "sftp")
    /\ Fault(maxFaults)
    /\ Become(OnSftp(State, t, <<"sftp subsystem failed">>))
    /\ UNCHANGED <<env, local, remote, delivered>>

\* sftp.readFile calls back with the file's content.
ReadFileDone(t, data) ==
    /\ Running /\ TaskAt(t, "readFile")
    /\ Become(OnReadFile(State, t, <<>>, data))
    /\ UNCHANGED <<env, local, remote, faults, delivered>>

\* sftp.readFile calls back with an error (no such file, permission denied).
ReadFileFailed(t, maxFaults) ==
    /\ Running /\ TaskAt(t, "readFile")
    /\ Fault(maxFaults)
    /\ Become(OnReadFile(State, t, <<"No such file">>, <<>>))
    /\ UNCHANGED <<env, local, remote, delivered>>

\* The destination stream of a transfer closes: pipe ends it when the source
\* stream has delivered the whole file.
WriteStreamClose(t) ==
    /\ Running /\ TaskAt(t, "pipe")
    /\ SourceExists(tasks[t]) /\ tasks[t].offset = Len(SourceContent(tasks[t]))
    /\ Become(OnWriteClose(State, t))
    /\ UNCHANGED <<env, local, remote, faults, delivered>>

\* The destination stream of a transfer emits 'error'.
WriteStreamError(t, maxFaults) ==
    /\ Running /\ TaskAt(t, "pipe")
    /\ Fault(maxFaults)
    /\ Become(OnWriteError(State, t, <<"write stream failed">>))
    /\ UNCHANGED <<env, local, remote, delivered>>

\* The source stream of a transfer emits 'error': always when the file does
\* not exist, otherwise as a failure of the library.
ReadStreamError(t, maxFaults) ==
    /\ Running /\ TaskAt(t, "pipe")
    /\ IF SourceExists(tasks[t]) THEN Fault(maxFaults) ELSE UNCHANGED faults
    /\ Become(OnReadError(State, t, <<"read stream failed">>))
    /\ UNCHANGED <<env, local, remote, delivered>>

FileData == <<"data">>

Signals == {"SIGINT", "SIGTERM"}

\* The process receives a shutdown signal.
Shutdown(signal, maxFaults) ==
    /\ Running
    /\ \/ /\ Become(OnSignal(State, signal, {}, 0))
          /\ UNCHANGED faults
       \/ /\ Fault(maxFaults)
          /\ \E failing \in Pooled(State) : \E before \in SUBSET (Pooled(State) \ {failing}) :
                Become(OnSignal(State, signal, before, failing))
    /\ UNCHANGED <<env, local, remote, delivered>>

Next ==
    \/ \E request \in Requests : Dispatch(request, MaxCalls, MaxTasks)
    \/ \E c \in 1..Len(clients) : ConnReady(c)
    \/ \E c \in 1..Len(clients) : ConnError(c, MaxFaults)
    \/ \E t \in 1..Len(tasks), echo \in EchoFlavours : ExecOpened(t, echo)
    \/ \E t \in 1..Len(tasks) : ExecFailed(t, MaxFaults)
    \/ \E t \in 1..Len(tasks), chunk \in Chunks : StreamData(t, chunk, MaxData)
    \/ \E t \in 1..Len(tasks), chunk \in Chunks : StreamStderrData(t, chunk, MaxData)
    \/ \E t \in 1..Len(tasks) : StreamEnd(t)
    \/ \E t \in 1..Len(tasks), code \in ExitCodes : StreamClose(t, code)
    \/ \E t \in 1..Len(tasks) : SftpOpened(t)
    \/ \E t \in 1..Len(tasks) : SftpFailed(t, MaxFaults)
    \/ \E t \in 1..Len(tasks) : ReadFileDone(t, FileData)
    \/ \E t \in 1..Len(tasks) : ReadFileFailed(t, MaxFaults)
    \/ \E t \in 1..Len(tasks), n \in 1..MaxChunk : PipeData(t, n)
    \/ \E t \in 1..Len(tasks) : WriteStreamClose(t)
    \/ \E t \in 1..Len(tasks) : WriteStreamError(t, MaxFaults)
    \/ \E t \in 1..Len(tasks) : ReadStreamError(t, MaxFaults)

Spec == Init /\ [][Next]_vars

\* The descriptor of every environment: a command is run in each of them.
InitConfig ==
    /\ env \in ConfigEnvs
    /\ connections = <<>>
    /\ clients = <<>>
    /\ tasks = <<>>
    /\ calls = <<>>
    /\ proc = "running"
    /\ remote = [files |-> <<>>, executed |-> {}]
    /\ local = [files |-> LocalFiles]
    /\ exit = NotExited
    /\ faults = 0
    /\ delivered = 0

ConfigRequests == {Request("execute_command", [command |-> Str(<<"ls">>)])}

NextConfig ==
    \/ \E request \in ConfigRequests : Dispatch(request, ConfigCalls, ConfigCalls)
    \/ \E c \in 1..Len(clients) : ConnReady(c)
    \/ \E c \in 1..Len(clients) : ConnError(c, ConfigFaults)
    \/ \E t \in 1..Len(tasks), echo \in EchoFlavours : ExecOpened(t, echo)
    \/ \E t \in 1..Len(tasks), code \in ExitCodes : StreamClose(t, code)

SpecConfig == InitConfig /\ [][NextConfig]_vars

\* An upload and then a download, one request after the other, of a local
\* file of every content over bytes that an encoding would change: the zero
\* byte, the newline and a byte that is not valid UTF-8.
Bytes == {"00", "0a", "ff"}
FileContents == UNION {[1..k -> Bytes] : k \in 0..MaxFile}

InitTransfer ==
    /\ env = PasswordEnv
    /\ connections = <<>>
    /\ clients = <<>>
    /\ tasks = <<>>
    /\ calls = <<>>
    /\ proc = "running"
    /\ remote = [files |-> <<>>, executed |-> {}]
    /\ \E content \in FileContents : local = [files |-> [p \in {<<"/l">>} |-> content]]
    /\ exit = NotExited
    /\ faults = 0
    /\ delivered = 0

TransferRequests ==
    { Request("upload_file", [local_path |-> Str(<<"/l">>), remote_path |-> Str(<<"/r">>)]),
      Request("download_file", [remote_path |-> Str(<<"/r">>), local_path |-> Str(<<"/l2">>)]) }

NextTransfer ==
    \/ /\ \A d \in 1..Len(calls) : calls[d].pc = "responded"
       /\ \E request \in TransferRequests : Dispatch(request, TransferCalls, TransferCalls)
    \/ \E c \in 1..Len(clients) : ConnReady(c)
    \/ \E t \in 1..Len(tasks) : SftpOpened(t)
    \/ \E t \in 1..Len(tasks), n \in 1..MaxChunk : PipeData(t, n)
    \/ \E t \in 1..Len(tasks) : WriteStreamClose(t)
    \/ \E t \in 1..Len(tasks) : WriteStreamError(t, TransferFaults)
    \/ \E t \in 1..Len(tasks) : ReadStreamError(t, TransferFaults)

SpecTransfer == InitTransfer /\ [][NextTransfer]_vars

\* Environments that differ in host, port, user name and password, with
\* hosts and user names that hold the character the key is joined with.
KeyEnvs ==
    {[PasswordEnv EXCEPT !.SSH_HOST = Str(h), !.SSH_PORT = p, !.SSH_USERNAME = Str(u),
                         !.SSH_PASSWORD = Str(pw)] :
        h \in {<<"a">>, <<"a", ":", "1">>},
        p \in {Undefined, Str(<<"1">>), Str(<<"2", "2">>)},
        u \in {<<"b">>, <<"1", ":", "b">>},
        pw \in {<<"pw">>, <<"pw2">>}}

InitKey ==
    /\ env \in KeyEnvs
    /\ connections = <<>>
    /\ clients = <<>>
    /\ tasks = <<>>
    /\ calls = <<>>
    /\ proc = "running"
    /\ remote = [files |-> <<>>, executed |-> {}]
    /\ local = [files |-> LocalFiles]
    /\ exit = NotExited
    /\ faults = 0
    /\ delivered = 0

NextKey ==
    \/ \E request \in ConfigRequests : Dispatch(request, KeyCalls, KeyCalls)
    \/ \E c \in 1..Len(clients) : ConnReady(c)
    \/ \E t \in 1..Len(tasks), echo \in EchoFlavours : ExecOpened(t, echo)
    \/ \E t \in 1..Len(tasks), code \in ExitCodes : StreamClose(t, code)

SpecKey == InitKey /\ [][NextKey]_vars

\* A remote side that never closes the channel and never finishes the
\* transfer of the first request, and delivers every other event: each
\* event that stays possible occurs (weak fairness), no failure occurs.
HangRequests ==
    { Request("execute_command", [command |-> Str(<<"ls">>)]),
      Request("read_file", [path |-> Str(<<"/r">>)]),
      Request("upload_file", [local_path |-> Str(<<"/l">>), remote_path |-> Str(<<"/r">>)]),
      Request("list_directory", [path |-> Str(<<"/d">>), detailed |-> Undefined]),
      Request("reboot", [command |-> Str(<<"ls">>)]) }

Hung(t) == tasks[t].call = 1

HangDispatch == \E request \in HangRequests : Dispatch(request, HangCalls, HangTasks)
HangConnReady == \E c \in 1..Len(clients) : ConnReady(c)
HangExecOpened == \E t \in 1..Len(tasks), echo \in EchoFlavours : ExecOpened(t, echo)
HangStreamClose ==
    \E t \in 1..Len(tasks), code \in ExitCodes : ~Hung(t) /\ StreamClose(t, code)
HangSftpOpened == \E t \in 1..Len(tasks) : SftpOpened(t)
HangReadFileDone == \E t \in 1..Len(tasks) : ReadFileDone(t, FileData)
HangPipeData == \E t \in 1..Len(tasks), n \in 1..MaxChunk : PipeData(t, n)
HangWriteStreamClose == \E t \in 1..Len(tasks) : ~Hung(t) /\ WriteStreamClose(t)

NextHang ==
    \/ HangDispatch
    \/ HangConnReady
    \/ HangExecOpened
    \/ HangStreamClose
    \/ HangSftpOpened
    \/ HangReadFileDone
    \/ HangPipeData
    \/ HangWriteStreamClose

SpecHang ==
    /\ Init /\ [][NextHang]_vars
    /\ WF_vars(HangConnReady) /\ WF_vars(HangExecOpened) /\ WF_vars(HangStreamClose)
    /\ WF_vars(HangSftpOpened) /\ WF_vars(HangReadFileDone) /\ WF_vars(HangPipeData)
    /\ WF_vars(HangWriteStreamClose)

\* A remote side that answers: a connection attempt becomes ready or fails,
\* an exec or sftp request calls back, an open channel closes, a transfer
\* moves its data and its streams close or fail (weak fairness of each of
\* these events).  Failures occur, none has to.
LiveDispatch == \E request \in Requests : Dispatch(request, LiveCalls, LiveTasks)
LiveConnReady == \E c \in 1..Len(clients) : ConnReady(c)
LiveConnError == \E c \in 1..Len(clients) : ConnError(c, LiveFaults)
LiveExecOpened == \E t \in 1..Len(tasks), echo \in EchoFlavours : ExecOpened(t, echo)
LiveExecFailed == \E t \in 1..Len(tasks) : ExecFailed(t, LiveFaults)
LiveStreamClose == \E t \in 1..Len(tasks), code \in ExitCodes : StreamClose(t, code)
LiveSftpOpened == \E t \in 1..Len(tasks) : SftpOpened(t)
LiveSftpFailed == \E t \in 1..Len(tasks) : SftpFailed(t, LiveFaults)
LiveReadFileDone == \E t \in 1..Len(tasks) : ReadFileDone(t, FileData)
LiveReadFileFailed == \E t \in 1..Len(tasks) : ReadFileFailed(t, LiveFaults)
LivePipeData == \E t \in 1..Len(tasks), n \in 1..MaxChunk : PipeData(t, n)
LiveWriteStreamClose == \E t \in 1..Len(tasks) : WriteStreamClose(t)
LiveWriteStreamError == \E t \in 1..Len(tasks) : WriteStreamError(t, LiveFaults)
LiveReadStreamError == \E t \in 1..Len(tasks) : ReadStreamError(t, LiveFaults)

NextLive ==
    \/ LiveDispatch
    \/ LiveConnReady
    \/ LiveConnError
    \/ LiveExecOpened
    \/ LiveExecFailed
    \/ LiveStreamClose
    \/ LiveSftpOpened
    \/ LiveSftpFailed
    \/ LiveReadFileDone
    \/ LiveReadFileFailed
    \/ LivePipeData
    \/ LiveWriteStreamClose
    \/ LiveWriteStreamError
    \/ LiveReadStreamError

SpecLive ==
    /\ Init /\ [][NextLive]_vars
    /\ WF_vars(LiveConnReady) /\ WF_vars(LiveExecOpened) /\ WF_vars(LiveStreamClose)
    /\ WF_vars(LiveSftpOpened) /\ WF_vars(LiveReadFileDone) /\ WF_vars(LivePipeData)
    /\ WF_vars(LiveWriteStreamClose) /\ WF_vars(LiveReadStreamError)

\* The same requests and events, and the shutdown signals.
NextShutdown ==
    \/ Next
    \/ \E signal \in Signals : Shutdown(signal, MaxFaults)

SpecShutdown == Init /\ [][NextShutdown]_vars

\* One request at a time would not show a race; SpecInput is about what a
\* request's arguments lead to, for every combination of arguments.
NextInput ==
    \/ \E request \in InputRequests : Dispatch(request, InputCalls, InputCalls)
    \/ \E c \in 1..Len(clients) : ConnReady(c)
    \/ \E c \in 1..Len(clients) : ConnError(c, InputFaults)
    \/ \E t \in 1..Len(tasks), echo \in EchoFlavours : ExecOpened(t, echo)
    \/ \E t \in 1..Len(tasks) : ExecFailed(t, InputFaults)
    \/ \E t \in 1..Len(tasks), chunk \in Chunks : StreamData(t, chunk, InputData)
    \/ \E t \in 1..Len(tasks), chunk \in Chunks : StreamStderrData(t, chunk, InputData)
    \/ \E t \in 1..Len(tasks) : StreamEnd(t)
    \/ \E t \in 1..Len(tasks), code \in ExitCodes : StreamClose(t, code)
    \/ \E t \in 1..Len(tasks) : SftpOpened(t)
    \/ \E t \in 1..Len(tasks) : SftpFailed(t, InputFaults)
    \/ \E t \in 1..Len(tasks) : ReadFileDone(t, FileData)
    \/ \E t \in 1..Len(tasks) : ReadFileFailed(t, InputFaults)
    \/ \E t \in 1..Len(tasks), n \in 1..MaxChunk : PipeData(t, n)
    \/ \E t \in 1..Len(tasks) : WriteStreamClose(t)
    \/ \E t \in 1..Len(tasks) : WriteStreamError(t, InputFaults)
    \/ \E t \in 1..Len(tasks) : ReadStreamError(t, InputFaults)

SpecInput == Init /\ [][NextInput]_vars

\* write_file of every content, on a remote side that does not fail.
NextQuote ==
    \/ /\ Len(calls) < QuoteCalls
       /\ \E request \in QuoteRequests : Dispatch(request, QuoteCalls, QuoteCalls)
    \/ \E c \in 1..Len(clients) : ConnReady(c)
    \/ \E t \in 1..Len(tasks), echo \in EchoFlavours : ExecOpened(t, echo)
    \/ \E t \in 1..Len(tasks), code \in ExitCodes : StreamClose(t, code)

SpecQuote == Init /\ [][NextQuote]_vars

\* system_monitor only runs commands: the sftp events cannot occur.
NextMonitor ==
    \/ \E request \in MonitorRequests : Dispatch(request, MonitorCalls, MonitorTasks)
    \/ \E c \in 1..Len(clients) : ConnReady(c)
    \/ \E c \in 1..Len(clients) : ConnError(c, MonitorFaults)
    \/ \E t \in 1..Len(tasks), echo \in EchoFlavours : ExecOpened(t, echo)
    \/ \E t \in 1..Len(tasks) : ExecFailed(t, MonitorFaults)
    \/ \E t \in 1..Len(tasks), chunk \in Chunks : StreamData(t, chunk, MonitorData)
    \/ \E t \in 1..Len(tasks) : StreamClose(t, 0)

SpecMonitor == Init /\ [][NextMonitor]_vars

(***************************************************************************)
(* Properties                                                              *)
(***************************************************************************)
TaskIds == 1..Len(tasks)
CallIds == 1..Len(calls)
ClientIds == 1..Len(clients)
TasksOf(d) == {t \in TaskIds : tasks[t].call = d}
RequestOf(t) == calls[tasks[t].call].request

\* The number of times createSSHConnection was called for key and did not
\* fail.
Opens(key) == Cardinality({c \in ClientIds : clients[c].key = key /\ clients[c].state # "failed"})

\* C1: for every interleaving of requests on the same (host, port, username),
\* createSSHConnection is called at most once for that key, apart from the
\* calls that failed: no two connections to one key are being opened or open.
C1_OneOpenPerKey == \A c \in ClientIds : Opens(clients[c].key) <= 1

\* C2: when the Client emits 'error' before 'ready', the error reaches the
\* task that opened it, the pool holds no entry for the key after that step,
\* and so the next getSSHConnection for the key calls createSSHConnection.
C2_FailedOpenLeavesNoEntry ==
    [][\A c \in ClientIds :
          clients[c].state = "connecting" /\ clients'[c].state = "failed"
          => /\ tasks'[clients[c].waiter].pc = "rejected"
             /\ tasks'[clients[c].waiter].error # <<>>
             /\ clients[c].key \notin DOMAIN connections']_vars

\* A required argument of the request is missing or is the empty string.
Required(name) ==
    CASE name = "execute_command" -> {"command"}
      [] name = "read_file" -> {"path"}
      [] name = "write_file" -> {"path", "content"}
      [] name = "upload_file" -> {"local_path", "remote_path"}
      [] name = "download_file" -> {"local_path", "remote_path"}
      [] OTHER -> {}
MissingArgument(request) ==
    \E a \in Required(request.name) :
        Arg(request, a) = Undefined \/ Arg(request, a) = Str(<<>>)

\* C3: a request of execute_command, read_file, write_file, upload_file or
\* download_file with a required argument missing or empty is answered with
\* an error, and no executor function is called for it (so no connection is
\* looked up or opened for it).
C3_MissingArgumentRejected ==
    \A d \in CallIds :
        MissingArgument(calls[d].request)
        => /\ calls[d].pc = "responded"
           /\ calls[d].response.isError
           /\ TasksOf(d) = {}

\* C4: once the remote shell has run the command of write_file(path, content),
\* the only file written is path, it holds content (and the newline of echo),
\* and the shell has run no command substitution and no expansion.
C4_WriteFileLiteral ==
    \A t \in TaskIds :
        RequestOf(t).name = "write_file" /\ tasks[t].pc \in {"stream", "resolved"}
        => LET path == String(Arg(RequestOf(t), "path"))
               content == String(Arg(RequestOf(t), "content"))
           IN  /\ remote.executed = {}
               /\ DOMAIN remote.files = {path}
               /\ remote.files[path] = content \o <<NL>>

\* C5: no failure escapes the handler: the process never dies of an
\* uncaught error, and a request with a failed executor call is answered
\* with an error response that carries the text of such a failure.
C5_FailuresBecomeErrorResponses ==
    /\ proc = "running"
    /\ \A d \in CallIds :
          (\E t \in TasksOf(d) : tasks[t].pc = "rejected")
          => /\ calls[d].pc = "responded"
             /\ calls[d].response.isError
             /\ \E t \in TasksOf(d) :
                   /\ tasks[t].pc = "rejected"
                   /\ calls[d].response.text = <<"error: ", "Error: ">> \o tasks[t].error

\* C8: a transfer on which a stream emitted 'error', the source stream or the
\* destination stream, has failed with that error: it is neither pending nor
\* resolved.
C8_StreamErrorFailsTransfer ==
    \A t \in TaskIds :
        tasks[t].kind \in {"upload", "download"} /\ tasks[t].error # <<>>
        => tasks[t].pc = "rejected"

\* The task that runs the command at position i of request d.
TaskOfCommand(d, i) == CHOOSE t \in TasksOf(d) : tasks[t].index = i

RECURSIVE LabelledOutputs(_, _, _)
LabelledOutputs(d, commands, i) ==
    IF i > Len(commands) THEN <<>>
    ELSE (IF i = 1 THEN <<>> ELSE <<"\n">>)
         \o <<"=== ">> \o commands[i] \o <<" ===\n">>
         \o tasks[TaskOfCommand(d, i)].sentOut \o <<"\n">>
         \o LabelledOutputs(d, commands, i + 1)

\* C6: the text returned by system_monitor holds, in the order of the command
\* list of the monitor type, one block per command, labelled with the command
\* and holding the standard output of that command, whatever the order in
\* which the commands completed.
C6_MonitorOutputInListOrder ==
    \A d \in CallIds :
        LET request == calls[d].request
            commands == MonitorCommands(monitorType(request))
        IN  request.name = "system_monitor" /\ calls[d].pc = "responded"
            /\ ~calls[d].response.isError
            => calls[d].response.text =
                   <<"monitor (">> \o monitorType(request) \o <<"):\n\n">>
                   \o LabelledOutputs(d, commands, 1)

\* all five commands ran, the last one produced output and completed first
C6_Witness ==
    \E d \in CallIds :
        /\ calls[d].request.name = "system_monitor"
        /\ calls[d].pc = "responded" /\ ~calls[d].response.isError
        /\ Len(calls[d].commands) = 5
        /\ calls[d].firstClosed = 5
        /\ tasks[TaskOfCommand(d, 5)].sentOut # <<>>

\* C7: an executeRemoteCommand promise is resolved exactly when the close
\* event of its channel has fired, and then its result holds the chunks the
\* channel delivered on standard output and on standard error, each in
\* arrival order, and the exit code delivered with the close event.
C7_ResolvedAtCloseWithAllOutput ==
    \A t \in TaskIds :
        tasks[t].kind = "exec"
        => /\ tasks[t].pc = "resolved" <=> tasks[t].closed
           /\ tasks[t].pc = "resolved"
              => /\ ResultOf(tasks[t]).stdout = tasks[t].sentOut
                 /\ ResultOf(tasks[t]).stderr = tasks[t].sentErr
                 /\ ResultOf(tasks[t]).exitCode = tasks[t].closeCode

\* a command that wrote to both streams and exited with 127
C7_Witness ==
    \E t \in TaskIds :
        /\ tasks[t].kind = "exec" /\ tasks[t].pc = "resolved"
        /\ tasks[t].sentOut # <<>> /\ tasks[t].sentErr # <<>>
        /\ tasks[t].exitCode = 127

\* The commands passed to executeRemoteCommand by request d, in call order.
RECURSIVE IssuedFrom(_, _)
IssuedFrom(d, t) ==
    IF t > Len(tasks) THEN <<>>
    ELSE (IF tasks[t].call = d THEN <<tasks[t].arg>> ELSE <<>>) \o IssuedFrom(d, t + 1)
Issued(d) == IssuedFrom(d, 1)

\* C9: system_monitor runs exactly the commands of the list of its type, each
\* once, and nothing else; without a type it runs the list of all.
C9_MonitorRunsItsCommandList ==
    \A d \in CallIds :
        LET type == Arg(calls[d].request, "type") IN
        calls[d].request.name = "system_monitor"
        => /\ \A t \in TasksOf(d) : tasks[t].kind = "exec"
           /\ type = Str(<<"cpu">>) => Issued(d) = << <<"top -bn1 | head -20">> >>
           /\ type = Str(<<"memory">>)
              => Issued(d) = << <<"free -h">>, <<"cat /proc/meminfo | head -10">> >>
           /\ type = Str(<<"disk">>) => Issued(d) = << <<"df -h">>, <<"lsblk">> >>
           /\ type = Str(<<"network">>) => Issued(d) = << <<"netstat -tuln">>, <<"ss -tuln">> >>
           /\ type \in {Str(<<"all">>), Undefined}
              => Issued(d) = << <<"uptime">>, <<"free -h">>, <<"df -h">>,
                                <<"top -bn1 | head -10">>, <<"netstat -tuln | head -10">> >>

\* a memory monitor whose two commands both ran to completion
C9_Witness ==
    \E d \in CallIds :
        /\ calls[d].request = Request("system_monitor", [type |-> Str(<<"memory">>)])
        /\ calls[d].pc = "responded" /\ ~calls[d].response.isError
        /\ Cardinality(TasksOf(d)) = 2

ToolNames ==
    {"execute_command", "read_file", "write_file", "upload_file", "download_file",
     "list_directory", "system_monitor"}

\* C10: the step that takes a request whose name is no tool answers it with
\* an error, calls no executor function for it, opens no connection and
\* leaves the pool as it was.
C10_UnknownToolTouchesNothing ==
    [][Len(calls') = Len(calls) + 1 /\ calls'[Len(calls')].request.name \notin ToolNames
       => /\ calls'[Len(calls')].pc = "responded"
          /\ calls'[Len(calls')].response.isError
          /\ tasks' = tasks
          /\ clients' = clients
          /\ connections' = connections]_vars

\* an unknown tool was answered while the pool holds a connection
C10_Witness ==
    \E d \in CallIds :
        /\ calls[d].request.name \notin ToolNames
        /\ calls[d].response.isError
        /\ d = 2 /\ calls[1].pc = "pending"
        /\ DOMAIN connections # {}

\* C11: once a shutdown signal was received, every Client the pool holds has
\* been ended, the process has exited and its exit code is 0, also when
\* ending one of the Clients failed.
C11_ShutdownClosesEverySession ==
    exit.signal # "none"
    => /\ proc = "exited"
       /\ exit.code = <<0>>
       /\ \A c \in Pooled(State) : clients[c].state = "ended"

\* The environments in which getSSHConfig has to fail: host or username
\* absent, neither password nor key path, or the key file it reads (there is no
\* password) unreadable.  An empty variable is absent.
ConfigMustFail(e) ==
    \/ e.SSH_HOST \in {Undefined, Str(<<>>)}
    \/ e.SSH_USERNAME \in {Undefined, Str(<<>>)}
    \/ /\ e.SSH_PASSWORD \in {Undefined, Str(<<>>)}
       /\ \/ e.SSH_PRIVATE_KEY_PATH \in {Undefined, Str(<<>>)}
          \/ e.keyFile = Undefined

IsNumeric(str) == str # <<>> /\ \A i \in 1..Len(str) : IsDigit(str[i])

\* C13: the port of a descriptor is never NaN, and it is 22 when SSH_PORT is
\* unset or is not a number.
C13_PortDefaultsTo22 ==
    \A t \in TaskIds :
        tasks[t].config # Undefined
        => /\ ~tasks[t].config.port.nan
           /\ (env.SSH_PORT = Undefined \/ ~IsNumeric(env.SSH_PORT.s))
              => tasks[t].config.port = Num(22)

\* C14: a write_file request whose command has ended is answered with
\* success exactly when the exit code delivered at close is 0; for every
\* other exit code the answer is an error that holds the standard error
\* text the command produced.
C14_WriteFileFailsOnNonZeroExit ==
    \A t \in TaskIds :
        RequestOf(t).name = "write_file" /\ tasks[t].closed
        => LET response == calls[tasks[t].call].response IN
           /\ calls[tasks[t].call].pc = "responded"
           /\ ~response.isError <=> tasks[t].closeCode = 0
           /\ response.isError
              => response.text = <<"error: ", "Error: ", "write failed: ">> \o tasks[t].sentErr

\* a write_file whose command wrote to standard error and exited with 1
C14_Witness ==
    \E t \in TaskIds :
        /\ RequestOf(t).name = "write_file" /\ tasks[t].closed
        /\ tasks[t].closeCode = 1 /\ tasks[t].sentErr # <<>>
        /\ calls[tasks[t].call].response.isError

\* C15: when an upload of the local file A to the remote file B has
\* resolved and the download of B to the local file A2 that follows it has
\* resolved, A2 holds the bytes of A, in the same order and number, whatever
\* the chunks the streams delivered (as long as no later operation has been
\* started, which could write to A2 again).
C15_UploadDownloadRoundTrip ==
    \A u \in TaskIds, v \in TaskIds :
        /\ v = u + 1 /\ v = Len(tasks)
        /\ tasks[u].kind = "upload" /\ tasks[u].pc = "resolved"
        /\ tasks[v].kind = "download" /\ tasks[v].pc = "resolved"
        /\ tasks[v].arg = tasks[u].arg2 /\ tasks[v].arg2 # tasks[u].arg
        => /\ tasks[v].arg2 \in DOMAIN local.files
           /\ local.files[tasks[v].arg2] = local.files[tasks[u].arg]

\* a file of three different bytes went up and came down
C15_Witness ==
    /\ Len(tasks) = 2
    /\ tasks[1].kind = "upload" /\ tasks[1].pc = "resolved"
    /\ tasks[2].kind = "download" /\ tasks[2].pc = "resolved"
    /\ local.files[<<"/l">>] = <<"ff", "00", "0a">>
    /\ <<"/l2">> \in DOMAIN local.files

\* The Client was opened by createSSHConnection: it became ready.
Opened(c) == clients[c].state \in {"ready", "lost", "ended"}

\* C16: every Client that createSSHConnection opened is the value the pool
\* holds for its key, and once the process has exited on a signal every
\* opened Client has been ended.
C16_OpenedSessionIsPooled ==
    \A c \in ClientIds :
        Opened(c)
        => /\ clients[c].key \in DOMAIN connections
           /\ connections[clients[c].key] = c
           /\ proc = "exited" => clients[c].state = "ended"

\* The chunks of a text.
ChunksOf(text) == {text[i] : i \in 1..Len(text)}

\* C17: commands that run at the same time on one Client do not mix their
\* streams: what a command has accumulated is what its own channel
\* delivered, it holds no chunk that the channel of another command
\* delivered, and its exit code is the one its own channel closed with.
C17_ChannelsDoNotMix ==
    \A t \in TaskIds : \A u \in TaskIds \ {t} :
        tasks[t].kind = "exec" /\ tasks[u].kind = "exec" /\ tasks[t].conn = tasks[u].conn
        => /\ ChunksOf(tasks[t].stdout) \cap ChunksOf(tasks[u].sentOut \o tasks[u].sentErr) = {}
           /\ ChunksOf(tasks[t].stderr) \cap ChunksOf(tasks[u].sentOut \o tasks[u].sentErr) = {}
           /\ tasks[t].stdout = tasks[t].sentOut
           /\ tasks[t].stderr = tasks[t].sentErr
           /\ tasks[t].pc = "resolved" => tasks[t].exitCode = tasks[t].closeCode

\* two commands on one Client: the second received output before the first,
\* and they ended with different exit codes
C17_Witness ==
    /\ Len(tasks) = 2
    /\ tasks[1].conn = tasks[2].conn /\ tasks[1].conn # 0
    /\ tasks[1].kind = "exec" /\ tasks[2].kind = "exec"
    /\ tasks[1].pc = "resolved" /\ tasks[2].pc = "resolved"
    /\ tasks[2].stdout = <<"c1">> /\ tasks[1].stdout = <<"c2">>
    /\ tasks[1].exitCode = 1 /\ tasks[2].exitCode = 0

\* C18: as long as no shutdown signal was received, no step removes a key
\* from the pool and no step ends a Client, whatever succeeds or fails.
C18_PoolEntriesPersist ==
    [][exit'.signal = "none"
       => /\ \A k \in DOMAIN connections : k \in DOMAIN connections'
          /\ \A c \in 1..Len(clients') : clients'[c].state # "ended"]_vars

\* the pooled Client lost its connection, a later request failed on it, and
\* the pool still holds it
C18_Witness ==
    \E t \in TaskIds :
        /\ tasks[t].error = <<"Not connected">>
        /\ tasks[t].conn \in Pooled(State)
        /\ clients[tasks[t].conn].state = "lost"
        /\ exit.signal = "none"

\* Two descriptors name the same target.
SameTarget(c1, c2) ==
    c1.host = c2.host /\ c1.port = c2.port /\ c1.username = c2.username

\* C19: the key under which a call pooled its Client is the key of another
\* descriptor exactly when the two descriptors have the same host, port and
\* user name, whatever their passwords: a call with the other descriptor
\* finds the pooled Client exactly then.
C19_KeyIsHostPortUser ==
    \A t \in TaskIds : \A e2 \in KeyEnvs :
        tasks[t].config # Undefined /\ tasks[t].conn \in Pooled(State)
        => LET c2 == getSSHConfig(e2).config IN
           /\ clients[tasks[t].conn].key = connectionKey(c2)
              <=> SameTarget(tasks[t].config, c2)
           /\ Has(State, connectionKey(c2)) <=> SameTarget(tasks[t].config, c2)

\* C20: while the first request stays suspended on a channel that never
\* closes or a transfer that never finishes, every other request, started
\* beside it or after it, is answered once its own remote events arrive.
C20_PendingRequestBlocksNoOther ==
    \A d \in 2..HangCalls :
        (Len(calls) >= d) ~> (Len(calls) >= d /\ calls[d].pc = "responded")

\* the first request is suspended on its open channel, on the Client that
\* the second request used and was answered on
C20_Witness ==
    /\ Len(calls) = 2 /\ Len(tasks) = 2
    /\ calls[1].pc = "pending" /\ tasks[1].pc = "stream"
    /\ tasks[2].call = 2 /\ tasks[2].conn = tasks[1].conn
    /\ calls[2].pc = "responded" /\ ~calls[2].response.isError

\* C21: every request is answered, and answered once: the handler never
\* returns a second response for a request, and on a remote side that
\* answers every request that was received is eventually responded to.
C21_EveryRequestAnsweredOnce ==
    /\ [](\A d \in CallIds :
             /\ calls[d].answers <= 1
             /\ calls[d].pc = "responded" <=> calls[d].answers = 1)
    /\ \A d \in 1..LiveCalls :
          (Len(calls) >= d) ~> (Len(calls) >= d /\ calls[d].pc = "responded")

====
